---- MODULE Spec2Model ----
(***************************************************************************)
(* Evaluation-to-recommendation pipeline of REMS.                          *)
(*                                                                         *)
(* Two implementations live in the repository and both are modelled:       *)
(*   "core"   : rems.core (RAGEvaluator, diagnose, generate_recommendations)*)
(*   "legacy" : rems.evaluators / rems.diagnostic / rems.recommendations   *)
(*                                                                         *)
(* Numbers.  Every Python float of the pipeline is modelled as an exact    *)
(* rational [n, d] counted in units of 1/Scale (so 0.7 is [n |-> 14,       *)
(* d |-> 1] with Scale = 20).  Python's None is the record with d = 0.     *)
(* Thresholds and cut points are integers in the same unit.                *)
(*                                                                         *)
(* Run state.  `calls` lists the stages and collaborators a run called,    *)
(* `supplied` is the list it was given, `raised` the exception it ended    *)
(* with, and `sessions` holds one record per use of get_session: the       *)
(* operations the session saw and the rows that became durable.            *)
(***************************************************************************)
EXTENDS Integers, Sequences, FiniteSets, TLC

VARIABLES impl, config, pc, results, metrics, issues, recs, summary, raised, calls, graded,
          supplied, sessions

vars == <<impl, config, pc, results, metrics, issues, recs, summary, raised, calls, graded,
          supplied, sessions>>

-----------------------------------------------------------------------------
(* Bounds of the model                                                     *)

MaxResults == 2
MaxIssues == 2
MaxGraded == 2
\* collaborator failures are explored for runs of at most this many interactions
MaxFailing == 1
\* lists that hold something else than Interaction objects are explored up to this length
MaxMixed == 1

-----------------------------------------------------------------------------
(* Fixed-point unit and rationals                                          *)

Scale == 20

None == [n |-> 0, d |-> 0]
Val(v) == [n |-> v, d |-> 1]
IsNone(x) == x.d = 0
\* Python truthiness of a float-or-None: None and 0.0 are both falsy
Truthy(x) == x.d # 0 /\ x.n # 0

RatLt(x, y) == x.n * y.d < y.n * x.d
RatLe(x, y) == x.n * y.d <= y.n * x.d

RECURSIVE GCD(_, _)
GCD(a, b) == IF b = 0 THEN a ELSE GCD(b, a % b)

\* the same number in lowest terms (a float has one representation per value)
Reduce(x) ==
  IF x.d = 0 THEN x
  ELSE LET g == GCD(IF x.n < 0 THEN -x.n ELSE x.n, x.d)
       IN [n |-> x.n \div g, d |-> x.d \div g]

RatAdd(x, y) == Reduce([n |-> x.n * y.d + y.n * x.d, d |-> x.d * y.d])

RECURSIVE sum(_)
sum(s) == IF s = <<>> THEN Val(0) ELSE RatAdd(Head(s), sum(Tail(s)))

\* sum(xs) / len(xs) if xs else None
MeanOrNone(s) == IF s = <<>> THEN None ELSE Reduce([n |-> sum(s).n, d |-> sum(s).d * Len(s)])

\* list comprehension  [x.name for x in s]
Field(s, name) == [i \in 1..Len(s) |-> s[i][name]]

-----------------------------------------------------------------------------
(* Configuration                                                           *)

\* A DiagnosticEngine constructor argument that was not passed (None)
NotGiven == -1

FAITHFULNESS_THRESHOLD == 14
CONTEXT_PRECISION_THRESHOLD == 14
CONTEXT_RELEVANCY_THRESHOLD == 14
ANSWER_RELEVANCY_THRESHOLD == 14
HALLUCINATION_RATE_THRESHOLD == 2
EXCELLENT_THRESHOLD == 18
GOOD_THRESHOLD == 15
ACCEPTABLE_THRESHOLD == 12
POOR_THRESHOLD == 8
HALLUCINATION_THRESHOLD == 14
\* scoring weights, in units of 1/Scale: EvaluationConfig's defaults and the
\* module constants of the orchestrator
RETRIEVAL_WEIGHT == 7
GENERATION_WEIGHT == 13

EvaluationConfig ==
  [ faithfulness_threshold |-> FAITHFULNESS_THRESHOLD,
    context_precision_threshold |-> CONTEXT_PRECISION_THRESHOLD,
    context_relevancy_threshold |-> CONTEXT_RELEVANCY_THRESHOLD,
    answer_relevancy_threshold |-> ANSWER_RELEVANCY_THRESHOLD,
    hallucination_rate_threshold |-> HALLUCINATION_RATE_THRESHOLD,
    excellent_threshold |-> EXCELLENT_THRESHOLD,
    good_threshold |-> GOOD_THRESHOLD,
    acceptable_threshold |-> ACCEPTABLE_THRESHOLD,
    poor_threshold |-> POOR_THRESHOLD,
    retrieval_weight |-> RETRIEVAL_WEIGHT,
    generation_weight |-> GENERATION_WEIGHT ]

\* every diagnostic threshold 0
ZeroConfig ==
  [ EvaluationConfig EXCEPT !.faithfulness_threshold = 0,
      !.context_precision_threshold = 0, !.context_relevancy_threshold = 0,
      !.answer_relevancy_threshold = 0, !.hallucination_rate_threshold = 0 ]

\* thresholds and cut points that differ from the defaults
CustomConfig ==
  [ faithfulness_threshold |-> 16, context_precision_threshold |-> 10,
    context_relevancy_threshold |-> 20, answer_relevancy_threshold |-> 8,
    hallucination_rate_threshold |-> 10,
    excellent_threshold |-> 16, good_threshold |-> 12,
    acceptable_threshold |-> 6, poor_threshold |-> 4,
    retrieval_weight |-> RETRIEVAL_WEIGHT, generation_weight |-> GENERATION_WEIGHT ]

\* cut points out of order (nothing validates them)
MisorderedConfig ==
  [ EvaluationConfig EXCEPT !.excellent_threshold = 12, !.acceptable_threshold = 18 ]

\* no threshold passed to DiagnosticEngine()
UnsetConfig ==
  [ EvaluationConfig EXCEPT !.faithfulness_threshold = NotGiven,
      !.context_precision_threshold = NotGiven, !.context_relevancy_threshold = NotGiven,
      !.answer_relevancy_threshold = NotGiven, !.hallucination_rate_threshold = NotGiven ]

\* weights that differ from the defaults and do not sum to 1 (nothing validates them)
ReweightedConfig ==
  [ EvaluationConfig EXCEPT !.retrieval_weight = 10, !.generation_weight = 15 ]

CoreConfigs == {EvaluationConfig, ZeroConfig, CustomConfig, MisorderedConfig, ReweightedConfig}
LegacyConfigs == {UnsetConfig, ZeroConfig, CustomConfig}

Metrics == <<"context_precision", "context_relevancy", "faithfulness",
             "answer_relevancy", "hallucination_rate">>
LowerBoundMetrics == {"context_precision", "context_relevancy", "faithfulness",
                      "answer_relevancy"}

\* x or default
OrDefault(x, default) == IF x # NotGiven /\ x # 0 THEN x ELSE default

\* DiagnosticEngine.__init__: self.thresholds
DiagnosticEngine_thresholds(c) ==
  [ context_precision |-> OrDefault(c.context_precision_threshold, CONTEXT_PRECISION_THRESHOLD),
    context_relevancy |-> OrDefault(c.context_relevancy_threshold, CONTEXT_RELEVANCY_THRESHOLD),
    faithfulness |-> OrDefault(c.faithfulness_threshold, FAITHFULNESS_THRESHOLD),
    answer_relevancy |-> OrDefault(c.answer_relevancy_threshold, ANSWER_RELEVANCY_THRESHOLD),
    hallucination_rate |-> OrDefault(c.hallucination_rate_threshold, HALLUCINATION_RATE_THRESHOLD) ]

\* the thresholds core diagnose(metrics, config) reads from its config
EvaluationConfig_thresholds(c) ==
  [ context_precision |-> c.context_precision_threshold,
    context_relevancy |-> c.context_relevancy_threshold,
    faithfulness |-> c.faithfulness_threshold,
    answer_relevancy |-> c.answer_relevancy_threshold,
    hallucination_rate |-> c.hallucination_rate_threshold ]

\* the threshold each implementation compares a metric against
Thresholds == IF impl = "core" THEN EvaluationConfig_thresholds(config)
              ELSE DiagnosticEngine_thresholds(config)

-----------------------------------------------------------------------------
(* Scoring stage, core: MetricsEvaluator.evaluate_interactions             *)

\* One row of the RAGAS dataframe after _get_score (a missing or NaN score is None)
CoreRows ==
  [ context_precision : {None, Val(0), Val(12)},
    faithfulness : {None, Val(0), Val(6), Val(20)},
    answer_relevancy : {None, Val(0), Val(20)} ]

\* the InteractionResult built for row idx
InteractionResult(idx, row, c) ==
  LET scores == SelectSeq(<<row.context_precision, row.faithfulness, row.answer_relevancy>>,
                       Truthy)
  IN [ interaction |-> idx,
       context_precision |-> row.context_precision,
       context_relevancy |-> None,
       faithfulness |-> row.faithfulness,
       answer_relevancy |-> row.answer_relevancy,
       overall_score |-> MeanOrNone(scores),
       has_hallucination |-> ( ~IsNone(row.faithfulness)
                               /\ RatLt(row.faithfulness, Val(c.faithfulness_threshold)) ) ]

evaluate_interactions(rows, c) ==
  [idx \in 1..Len(rows) |-> InteractionResult(idx, rows[idx], c)]

-----------------------------------------------------------------------------
(* Entry point, core: the items handed to RAGEvaluator.evaluate            *)

\* a key the mapping does not have
NoKey == "<no key>"

\* An Interaction object handed to evaluate, with the row the scorer returns for it
InteractionItems ==
  [ kind : {"Interaction"}, query : {"q"}, response : {"r"}, row : CoreRows ]

\* Any item of the list handed to evaluate: an Interaction object, a mapping (with
\* or without the query and the response), or something that is neither
CoreItems ==
  InteractionItems
  \cup
  [ kind : {"dict"}, query : {"q", NoKey}, response : {"r", NoKey},
    row : {[context_precision |-> Val(12), faithfulness |-> Val(20),
            answer_relevancy |-> Val(20)]} ]
  \cup
  [ kind : {"str"}, query : {NoKey}, response : {NoKey},
    row : {[context_precision |-> None, faithfulness |-> None, answer_relevancy |-> None]} ]

\* Interaction.from_dict: data.get("query", data.get("question", "")) and the same
\* for the response
Interaction_from_dict(data) ==
  [ kind |-> "Interaction",
    query |-> IF data.query = NoKey THEN "" ELSE data.query,
    response |-> IF data.response = NoKey THEN "" ELSE data.response,
    row |-> data.row ]

\* RAGEvaluator._parse_interactions: the parsed list, or the TypeError raised at the
\* first item that is neither an Interaction nor a dict
_parse_interactions(interactions) ==
  IF \E i \in DOMAIN interactions : interactions[i].kind \notin {"Interaction", "dict"}
  THEN [raised |-> "TypeError", parsed |-> <<>>]
  ELSE [ raised |-> "",
         parsed |-> [ i \in DOMAIN interactions |->
                        IF interactions[i].kind = "Interaction" THEN interactions[i]
                        ELSE Interaction_from_dict(interactions[i]) ] ]

-----------------------------------------------------------------------------
(* Scoring stage, legacy: RetrievalEvaluator, GeneratorEvaluator, merge    *)

\* An interaction with the scores RAGAS gives it when it is scored: every mix of
\* precision and faithfulness with an irrelevant context, one interaction that is
\* good on every metric, and interactions without retrieved documents
LegacyInteractions ==
  [ id : {"", "a"}, retrieved_documents : {TRUE},
    context_precision : {Val(0), Val(12)}, context_relevancy : {Val(0)},
    faithfulness : {Val(0), Val(14), Val(20)}, answer_relevancy : {Val(20)} ]
  \cup
  [ id : {"", "a"}, retrieved_documents : {TRUE},
    context_precision : {Val(12)}, context_relevancy : {Val(20)},
    faithfulness : {Val(20)}, answer_relevancy : {Val(20)} ]
  \cup
  [ id : {"", "a"}, retrieved_documents : {FALSE},
    context_precision : {None}, context_relevancy : {None},
    faithfulness : {None}, answer_relevancy : {None} ]

GeneratedIds == <<"interaction_0", "interaction_1", "interaction_2", "interaction_3">>

\* BaseEvaluator._get_interaction_id: interaction.id or f"interaction_{index}"
_get_interaction_id(interaction, index) ==
  IF interaction.id # "" THEN interaction.id ELSE GeneratedIds[index + 1]

\* indexes (0-based) of the interactions that have retrieved documents
valid_interactions(interactions) ==
  {idx \in 0..(Len(interactions) - 1) : interactions[idx + 1].retrieved_documents}

\* the keys of the dict both evaluators build
interaction_ids(interactions) ==
  {_get_interaction_id(interactions[idx + 1], idx) : idx \in valid_interactions(interactions)}

\* the interaction a key ends up holding: a later assignment overwrites an earlier one
LastWith(interactions, id) ==
  LET hits == {idx \in valid_interactions(interactions) :
                 _get_interaction_id(interactions[idx + 1], idx) = id}
  IN interactions[(CHOOSE idx \in hits : \A j \in hits : j <= idx) + 1]

EvaluationResultSchema(id) ==
  [ interaction_id |-> id, faithfulness |-> None, answer_relevancy |-> None,
    context_precision |-> None, context_relevancy |-> None,
    has_hallucination |-> FALSE, overall_score |-> None ]

RetrievalEvaluator_evaluate(interactions) ==
  [ id \in interaction_ids(interactions) |->
      [ EvaluationResultSchema(id) EXCEPT
          !.context_precision = LastWith(interactions, id).context_precision,
          !.context_relevancy = LastWith(interactions, id).context_relevancy ] ]

\* variant: a faithfulness equal to the threshold is flagged
GeneratorEvaluator_evaluate_inclusive(interactions) ==
  [ id \in interaction_ids(interactions) |->
      LET faithfulness_score == LastWith(interactions, id).faithfulness
          relevancy_score == LastWith(interactions, id).answer_relevancy
      IN [ EvaluationResultSchema(id) EXCEPT
             !.faithfulness = faithfulness_score,
             !.answer_relevancy = relevancy_score,
             !.has_hallucination = RatLe(faithfulness_score, Val(HALLUCINATION_THRESHOLD)),
             !.overall_score = [n |-> 6 * faithfulness_score.n + 4 * relevancy_score.n,
                                d |-> 10] ] ]

GeneratorEvaluator_evaluate(interactions) ==
  [ id \in interaction_ids(interactions) |->
      LET faithfulness_score == LastWith(interactions, id).faithfulness
          relevancy_score == LastWith(interactions, id).answer_relevancy
      IN [ EvaluationResultSchema(id) EXCEPT
             !.faithfulness = faithfulness_score,
             !.answer_relevancy = relevancy_score,
             !.has_hallucination = RatLt(faithfulness_score, Val(HALLUCINATION_THRESHOLD)),
             !.overall_score = [n |-> 6 * faithfulness_score.n + 4 * relevancy_score.n,
                                d |-> 10] ] ]

\* the body of the loop of _merge_results for one interaction id
MergeOne(retrieval_results, generator_results, id) ==
  LET base == IF id \in DOMAIN generator_results THEN generator_results[id]
              ELSE EvaluationResultSchema(id)
      withRetrieval ==
        IF id \in DOMAIN retrieval_results
        THEN [ base EXCEPT !.context_precision = retrieval_results[id].context_precision,
                           !.context_relevancy = retrieval_results[id].context_relevancy ]
        ELSE base
      scores == SelectSeq(<<withRetrieval.faithfulness, withRetrieval.answer_relevancy,
                         withRetrieval.context_precision, withRetrieval.context_relevancy>>,
                       LAMBDA s : ~IsNone(s))
  IN IF scores # <<>> THEN [withRetrieval EXCEPT !.overall_score = MeanOrNone(scores)]
     ELSE withRetrieval

\* the orders in which a set of ids can be iterated
Orders(S) == {o \in [1..Cardinality(S) -> S] : \A i, j \in DOMAIN o : i # j => o[i] # o[j]}

\* _merge_results: the merged dict, as the sequence of its values in insertion order;
\* all_ids is a set of strings, so the iteration order is not fixed
_merge_results(retrieval_results, generator_results, order) ==
  [i \in 1..Len(order) |-> MergeOne(retrieval_results, generator_results, order[i])]

-----------------------------------------------------------------------------
(* Metrics aggregator                                                      *)

Buckets == {"excellent", "good", "acceptable", "poor", "critical"}

\* variant: the lower end of the "good" bucket is exclusive
score_distribution_open(scores, t_exc, t_good, t_acc, t_poor) ==
  [ excellent |-> Len(SelectSeq(scores, LAMBDA s : RatLe(Val(t_exc), s))),
    good |-> Len(SelectSeq(scores, LAMBDA s : RatLt(Val(t_good), s) /\ RatLt(s, Val(t_exc)))),
    acceptable |-> Len(SelectSeq(scores, LAMBDA s : RatLe(Val(t_acc), s) /\ RatLt(s, Val(t_good)))),
    poor |-> Len(SelectSeq(scores, LAMBDA s : RatLe(Val(t_poor), s) /\ RatLt(s, Val(t_acc)))),
    critical |-> Len(SelectSeq(scores, LAMBDA s : RatLt(s, Val(t_poor)))) ]

\* variant: the intervals are closed at the upper end instead of the lower one
score_distribution_upper_closed(scores, t_exc, t_good, t_acc, t_poor) ==
  [ excellent |-> Len(SelectSeq(scores, LAMBDA s : RatLt(Val(t_exc), s))),
    good |-> Len(SelectSeq(scores, LAMBDA s : RatLt(Val(t_good), s) /\ RatLe(s, Val(t_exc)))),
    acceptable |-> Len(SelectSeq(scores, LAMBDA s : RatLt(Val(t_acc), s) /\ RatLe(s, Val(t_good)))),
    poor |-> Len(SelectSeq(scores, LAMBDA s : RatLt(Val(t_poor), s) /\ RatLe(s, Val(t_acc)))),
    critical |-> Len(SelectSeq(scores, LAMBDA s : RatLe(s, Val(t_poor)))) ]

\* len([s for s in scores if ...]) for each of the five buckets
score_distribution(scores, t_exc, t_good, t_acc, t_poor) ==
  [ excellent |-> Len(SelectSeq(scores, LAMBDA s : RatLe(Val(t_exc), s))),
    good |-> Len(SelectSeq(scores, LAMBDA s : RatLe(Val(t_good), s) /\ RatLt(s, Val(t_exc)))),
    acceptable |-> Len(SelectSeq(scores, LAMBDA s : RatLe(Val(t_acc), s) /\ RatLt(s, Val(t_good)))),
    poor |-> Len(SelectSeq(scores, LAMBDA s : RatLe(Val(t_poor), s) /\ RatLt(s, Val(t_acc)))),
    critical |-> Len(SelectSeq(scores, LAMBDA s : RatLt(s, Val(t_poor)))) ]

\* EvaluationResult() / EvaluationMetrics(): every field at its default
EvaluationResult ==
  [ avg_context_precision |-> None, avg_context_relevancy |-> None,
    avg_faithfulness |-> None, avg_answer_relevancy |-> None,
    hallucination_rate |-> None, total_hallucinations |-> 0,
    score_distribution |-> [b \in Buckets |-> 0], has_distribution |-> FALSE ]

\* [r.overall_score for r in results if r.overall_score is not None]
overall_scores(rs) ==
  Field(SelectSeq(rs, LAMBDA r : ~IsNone(r.overall_score)), "overall_score")

\* variant: the rate is taken over the results that carry a faithfulness score
_aggregate_metrics_rate_over_scored(rs, c) ==
  IF rs = <<>> THEN EvaluationResult
  ELSE
    LET ctx_prec == Field(SelectSeq(rs, LAMBDA r : Truthy(r.context_precision)), "context_precision")
        ctx_rel == Field(SelectSeq(rs, LAMBDA r : Truthy(r.context_relevancy)), "context_relevancy")
        faith == Field(SelectSeq(rs, LAMBDA r : Truthy(r.faithfulness)), "faithfulness")
        ans_rel == Field(SelectSeq(rs, LAMBDA r : Truthy(r.answer_relevancy)), "answer_relevancy")
        total_hallucinations == Len(SelectSeq(rs, LAMBDA r : r.has_hallucination))
        scored == Len(SelectSeq(rs, LAMBDA r : ~IsNone(r.faithfulness)))
    IN [ avg_context_precision |-> MeanOrNone(ctx_prec),
         avg_context_relevancy |-> MeanOrNone(ctx_rel),
         avg_faithfulness |-> MeanOrNone(faith),
         avg_answer_relevancy |-> MeanOrNone(ans_rel),
         hallucination_rate |-> IF scored = 0 THEN Val(0)
                                ELSE [n |-> total_hallucinations * Scale, d |-> scored],
         total_hallucinations |-> total_hallucinations,
         score_distribution |->
           score_distribution(overall_scores(rs), c.excellent_threshold, c.good_threshold,
                              c.acceptable_threshold, c.poor_threshold),
         has_distribution |-> TRUE ]

\* RAGEvaluator._aggregate_metrics
_aggregate_metrics(rs, c) ==
  IF rs = <<>> THEN EvaluationResult
  ELSE
    LET ctx_prec == Field(SelectSeq(rs, LAMBDA r : Truthy(r.context_precision)), "context_precision")
        ctx_rel == Field(SelectSeq(rs, LAMBDA r : Truthy(r.context_relevancy)), "context_relevancy")
        faith == Field(SelectSeq(rs, LAMBDA r : Truthy(r.faithfulness)), "faithfulness")
        ans_rel == Field(SelectSeq(rs, LAMBDA r : Truthy(r.answer_relevancy)), "answer_relevancy")
        total_hallucinations == Len(SelectSeq(rs, LAMBDA r : r.has_hallucination))
    IN [ avg_context_precision |-> MeanOrNone(ctx_prec),
         avg_context_relevancy |-> MeanOrNone(ctx_rel),
         avg_faithfulness |-> MeanOrNone(faith),
         avg_answer_relevancy |-> MeanOrNone(ans_rel),
         hallucination_rate |-> [n |-> total_hallucinations * Scale, d |-> Len(rs)],
         total_hallucinations |-> total_hallucinations,
         score_distribution |->
           score_distribution(overall_scores(rs), c.excellent_threshold, c.good_threshold,
                              c.acceptable_threshold, c.poor_threshold),
         has_distribution |-> TRUE ]

\* EvaluationOrchestrator._calculate_metrics
_calculate_metrics(values, c) ==
  IF values = <<>> THEN EvaluationResult
  ELSE
    LET ctx_prec == Field(SelectSeq(values, LAMBDA r : ~IsNone(r.context_precision)), "context_precision")
        ctx_rel == Field(SelectSeq(values, LAMBDA r : ~IsNone(r.context_relevancy)), "context_relevancy")
        faith == Field(SelectSeq(values, LAMBDA r : ~IsNone(r.faithfulness)), "faithfulness")
        ans_rel == Field(SelectSeq(values, LAMBDA r : ~IsNone(r.answer_relevancy)), "answer_relevancy")
        total_hallucinations == Len(SelectSeq(values, LAMBDA r : r.has_hallucination))
    IN [ avg_context_precision |-> MeanOrNone(ctx_prec),
         avg_context_relevancy |-> MeanOrNone(ctx_rel),
         avg_faithfulness |-> MeanOrNone(faith),
         avg_answer_relevancy |-> MeanOrNone(ans_rel),
         hallucination_rate |-> [n |-> total_hallucinations * Scale, d |-> Len(values)],
         total_hallucinations |-> total_hallucinations,
         score_distribution |->
           score_distribution(overall_scores(values), c.excellent_threshold, c.good_threshold,
                              c.acceptable_threshold, c.poor_threshold),
         has_distribution |-> TRUE ]

-----------------------------------------------------------------------------
(* Score composer                                                          *)

\* w * x for a weight w in units of 1/Scale
RatScale(w, x) == Reduce([n |-> w * x.n, d |-> Scale * x.d])

\* sum(scores) / len(scores) if scores else 0.0
MeanOrZero(s) == IF s = <<>> THEN Val(0) ELSE Reduce([n |-> sum(s).n, d |-> sum(s).d * Len(s)])

\* variant: a missing average counts as 0.0 in the mean
_calculate_retrieval_score_none_as_zero(m) ==
  MeanOrZero(<<IF IsNone(m.avg_context_precision) THEN Val(0) ELSE m.avg_context_precision,
               IF IsNone(m.avg_context_relevancy) THEN Val(0) ELSE m.avg_context_relevancy>>)

_calculate_retrieval_score(m) ==
  MeanOrZero(SelectSeq(<<m.avg_context_precision, m.avg_context_relevancy>>,
                       LAMBDA s : ~IsNone(s)))

_calculate_generation_score(m) ==
  MeanOrZero(SelectSeq(<<m.avg_faithfulness, m.avg_answer_relevancy>>,
                       LAMBDA s : ~IsNone(s)))

\* variant: the two weights are exchanged
overall_score_swapped(retrieval_weight, retrieval_score, generation_weight, generation_score) ==
  RatAdd(RatScale(generation_weight, retrieval_score),
         RatScale(retrieval_weight, generation_score))

\* retrieval_weight * retrieval_score + generation_weight * generation_score
overall_score(retrieval_weight, retrieval_score, generation_weight, generation_score) ==
  RatAdd(RatScale(retrieval_weight, retrieval_score),
         RatScale(generation_weight, generation_score))

\* class QualityLevel(str, Enum): the values
QualityLevel == <<"critical", "poor", "acceptable", "good", "excellent">>

\* variant: a score has to exceed a cut point to reach its level
_get_quality_level_strict(score, c) ==
  IF RatLt(Val(c.excellent_threshold), score) THEN "excellent"
  ELSE IF RatLt(Val(c.good_threshold), score) THEN "good"
  ELSE IF RatLt(Val(c.acceptable_threshold), score) THEN "acceptable"
  ELSE IF RatLt(Val(c.poor_threshold), score) THEN "poor"
  ELSE "critical"

\* variant: the checks run from the lowest cut point up
_get_quality_level_bottom_up(score, c) ==
  IF RatLt(score, Val(c.poor_threshold)) THEN "critical"
  ELSE IF RatLe(Val(c.excellent_threshold), score) THEN "good"
  ELSE IF RatLe(Val(c.good_threshold), score) THEN "excellent"
  ELSE IF RatLe(Val(c.acceptable_threshold), score) THEN "acceptable"
  ELSE "poor"

\* the if / elif chain of _get_quality_level
_get_quality_level(score, c) ==
  IF RatLe(Val(c.excellent_threshold), score) THEN "excellent"
  ELSE IF RatLe(Val(c.good_threshold), score) THEN "good"
  ELSE IF RatLe(Val(c.acceptable_threshold), score) THEN "acceptable"
  ELSE IF RatLe(Val(c.poor_threshold), score) THEN "poor"
  ELSE "critical"

\* the scores and level of a run summary (EvaluationResults / EvaluationSummary)
NoSummary ==
  [ produced |-> FALSE, interaction_count |-> 0, retrieval_score |-> None,
    generation_score |-> None, overall_score |-> None, quality_level |-> "" ]

\* the composer lines of evaluate(): both scores, their weighted sum and its level
Compose(m, c, retrieval_weight, generation_weight, interaction_count) ==
  LET retrieval_score == _calculate_retrieval_score(m)
      generation_score == _calculate_generation_score(m)
      overall == overall_score(retrieval_weight, retrieval_score,
                               generation_weight, generation_score)
  IN [ produced |-> TRUE, interaction_count |-> interaction_count,
       retrieval_score |-> retrieval_score, generation_score |-> generation_score,
       overall_score |-> overall, quality_level |-> _get_quality_level(overall, c) ]

-----------------------------------------------------------------------------
(* Diagnostic engine                                                       *)

\* class Severity(str, Enum): member name |-> value
Severity == [CRITICAL |-> "critical", HIGH |-> "high", MEDIUM |-> "medium", LOW |-> "low"]

severity_order == [CRITICAL |-> 0, HIGH |-> 1, MEDIUM |-> 2, LOW |-> 3]

DIAGNOSTIC_RULES ==
  [ low_context_precision |->
      [ component |-> "retriever",
        causes |-> <<"Similarity threshold too low", "Top-K too high",
                     "Embedding quality insufficient">> ],
    low_context_relevancy |->
      [ component |-> "retriever",
        causes |-> <<"Query poorly formulated", "Chunking strategy inadequate",
                     "Embeddings not optimized">> ],
    low_faithfulness |->
      [ component |-> "generator",
        causes |-> <<"LLM temperature too high (too creative)",
                     "System prompt not constraining enough",
                     "Insufficient context provided",
                     "Missing explicit instruction not to invent">> ],
    low_answer_relevancy |->
      [ component |-> "generator",
        causes |-> <<"Prompt not guiding towards direct answers", "LLM too verbose",
                     "Poor understanding of the question">> ],
    high_hallucination_rate |->
      [ component |-> "generator",
        causes |-> <<"Missing guardrails in system prompt", "LLM temperature too high",
                     "Insufficient context to answer", "LLM not well-suited">> ] ]

\* a / b rounded to the nearest integer, ties to even (b > 0)
RoundDiv(a, b) ==
  LET q == a \div b
      r == a % b
  IN IF 2 * r < b THEN q
     ELSE IF 2 * r > b THEN q + 1
     ELSE IF q % 2 = 0 THEN q ELSE q + 1

\* f"{x:.2%}": the value in hundredths of a percent
Pct2(x) == RoundDiv(x.n * 10000, x.d * Scale)

\* variant: the cut points are inclusive
SeverityOf_inclusive(deviation) ==
  IF RatLe([n |-> 1, d |-> 2], deviation) THEN "CRITICAL"
  ELSE IF RatLe([n |-> 1, d |-> 4], deviation) THEN "HIGH"
  ELSE IF RatLe([n |-> 1, d |-> 10], deviation) THEN "MEDIUM"
  ELSE "LOW"

\* variant: the high and medium bands are exchanged
SeverityOf_bands_exchanged(deviation) ==
  IF RatLt([n |-> 1, d |-> 2], deviation) THEN "CRITICAL"
  ELSE IF RatLt([n |-> 1, d |-> 4], deviation) THEN "MEDIUM"
  ELSE IF RatLt([n |-> 1, d |-> 10], deviation) THEN "HIGH"
  ELSE "LOW"

\* variant: a deviation of one half already counts as critical
SeverityOf_critical_from_half(deviation) ==
  IF RatLe([n |-> 1, d |-> 2], deviation) THEN "CRITICAL"
  ELSE IF RatLt([n |-> 1, d |-> 4], deviation) THEN "HIGH"
  ELSE IF RatLt([n |-> 1, d |-> 10], deviation) THEN "MEDIUM"
  ELSE "LOW"

\* deviation > 0.5 / > 0.25 / > 0.1 / else
SeverityOf(deviation) ==
  IF RatLt([n |-> 1, d |-> 2], deviation) THEN "CRITICAL"
  ELSE IF RatLt([n |-> 1, d |-> 4], deviation) THEN "HIGH"
  ELSE IF RatLt([n |-> 1, d |-> 10], deviation) THEN "MEDIUM"
  ELSE "LOW"

\* the relative deviation _create_issue computes (a plain ratio, not in units of 1/Scale)
Deviation(metric_value, threshold, is_upper_bound) ==
  IF is_upper_bound
  THEN IF threshold > 0
       THEN [n |-> metric_value.n - threshold * metric_value.d, d |-> threshold * metric_value.d]
       ELSE [n |-> metric_value.n, d |-> Scale * metric_value.d]
  ELSE IF threshold > 0
       THEN [n |-> threshold * metric_value.d - metric_value.n, d |-> threshold * metric_value.d]
       ELSE [n |-> Scale * metric_value.d - metric_value.n, d |-> Scale * metric_value.d]

\* Identity of a mutable container (list or dict) held by a returned object: the
\* container of a rule table, or one allocated by the call that returns it
RuleObject(table, rule_key, field) == table \o "[" \o rule_key \o "]." \o field
NewObject == "new object"
\* the None singleton
NoObject == "None"

\* core: probable_causes=[str(c) for c in rule["causes"]], a new list
_create_issue_probable_causes(rule_key) == NewObject

\* legacy: probable_causes=rule["causes"], the list of the rule table itself
DiagnosticEngine__create_issue_probable_causes(rule_key) ==
  RuleObject("DIAGNOSTIC_RULES", rule_key, "causes")

_create_issue(rule_key, metric_name, metric_value, threshold, is_upper_bound) ==
  [ component |-> DIAGNOSTIC_RULES[rule_key].component,
    symptom |-> [ metric_name |-> metric_name,
                  text |-> IF is_upper_bound THEN "too high" ELSE "too low",
                  value |-> Pct2(metric_value),
                  threshold |-> Pct2(Val(threshold)) ],
    probable_causes |-> DIAGNOSTIC_RULES[rule_key].causes,
    probable_causes_id |-> IF impl = "core" THEN _create_issue_probable_causes(rule_key)
                           ELSE DiagnosticEngine__create_issue_probable_causes(rule_key),
    severity |-> SeverityOf(Deviation(metric_value, threshold, is_upper_bound)),
    metric_name |-> metric_name,
    metric_value |-> metric_value,
    threshold |-> threshold ]

\* variant: the threshold itself counts as a breach
CheckLow_inclusive(value, threshold, rule_key, metric_name) ==
  IF ~IsNone(value) /\ RatLe(value, Val(threshold))
  THEN <<[ component |-> DIAGNOSTIC_RULES[rule_key].component,
           symptom |-> [ metric_name |-> metric_name, text |-> "too low",
                         value |-> Pct2(value), threshold |-> Pct2(Val(threshold)) ],
           probable_causes |-> DIAGNOSTIC_RULES[rule_key].causes,
           probable_causes_id |-> NewObject,
           severity |-> SeverityOf(Deviation(value, threshold, FALSE)),
           metric_name |-> metric_name,
           metric_value |-> value,
           threshold |-> threshold ]>>
  ELSE <<>>

\* variant: a missing aggregate is read as 0.0
CheckLow_none_as_zero(value, threshold, rule_key, metric_name) ==
  LET v == IF IsNone(value) THEN Val(0) ELSE value
  IN IF RatLt(v, Val(threshold))
     THEN <<[ component |-> DIAGNOSTIC_RULES[rule_key].component,
              symptom |-> [ metric_name |-> metric_name, text |-> "too low",
                            value |-> Pct2(v), threshold |-> Pct2(Val(threshold)) ],
              probable_causes |-> DIAGNOSTIC_RULES[rule_key].causes,
              probable_causes_id |-> NewObject,
              severity |-> SeverityOf(Deviation(v, threshold, FALSE)),
              metric_name |-> metric_name,
              metric_value |-> v,
              threshold |-> threshold ]>>
     ELSE <<>>

\* one "if value is not None: if value < threshold: issues.append(...)" block
CheckLow(value, threshold, rule_key, metric_name) ==
  IF ~IsNone(value) /\ RatLt(value, Val(threshold))
  THEN <<_create_issue(rule_key, metric_name, value, threshold, FALSE)>>
  ELSE <<>>

\* the hallucination-rate block: value > threshold
CheckHigh(value, threshold, rule_key, metric_name) ==
  IF ~IsNone(value) /\ RatLt(Val(threshold), value)
  THEN <<_create_issue(rule_key, metric_name, value, threshold, TRUE)>>
  ELSE <<>>

\* variant: the list is returned in emission order
sort_by_severity_unsorted(xs) == xs

\* issues.sort(key=lambda x: severity_order[x.severity]); list.sort is stable
sort_by_severity(xs) ==
  SelectSeq(xs, LAMBDA x : severity_order[x.severity] = 0)
  \o SelectSeq(xs, LAMBDA x : severity_order[x.severity] = 1)
  \o SelectSeq(xs, LAMBDA x : severity_order[x.severity] = 2)
  \o SelectSeq(xs, LAMBDA x : severity_order[x.severity] = 3)

\* rems.core.diagnostic.diagnose(metrics, config)
diagnose(m, c) ==
  sort_by_severity(
    CheckLow(m.avg_context_precision, c.context_precision_threshold,
             "low_context_precision", "context_precision")
    \o CheckLow(m.avg_context_relevancy, c.context_relevancy_threshold,
                "low_context_relevancy", "context_relevancy")
    \o CheckLow(m.avg_faithfulness, c.faithfulness_threshold,
                "low_faithfulness", "faithfulness")
    \o CheckLow(m.avg_answer_relevancy, c.answer_relevancy_threshold,
                "low_answer_relevancy", "answer_relevancy")
    \o CheckHigh(m.hallucination_rate, c.hallucination_rate_threshold,
                 "high_hallucination_rate", "hallucination_rate"))

\* DiagnosticEngine.diagnose(summary), with self.thresholds
DiagnosticEngine_diagnose(m, thresholds) ==
  sort_by_severity(
    CheckLow(m.avg_context_precision, thresholds.context_precision,
             "low_context_precision", "context_precision")
    \o CheckLow(m.avg_context_relevancy, thresholds.context_relevancy,
                "low_context_relevancy", "context_relevancy")
    \o CheckLow(m.avg_faithfulness, thresholds.faithfulness,
                "low_faithfulness", "faithfulness")
    \o CheckLow(m.avg_answer_relevancy, thresholds.answer_relevancy,
                "low_answer_relevancy", "answer_relevancy")
    \o CheckHigh(m.hallucination_rate, thresholds.hallucination_rate,
                 "high_hallucination_rate", "hallucination_rate"))

-----------------------------------------------------------------------------
(* Recommendation engine                                                   *)

\* rule.get("parameter_adjustments") of a rule that has none
NoAdjustments == <<>>

RECOMMENDATION_RULES ==
  [ low_context_precision |->
      [ suggestion |-> "Reduce top_k or increase the similarity threshold",
        parameter_adjustments |->
          ("retriever.top_k" :> [action |-> "decrease", suggested_value |-> "3"])
          @@ ("retriever.similarity_threshold" :>
                [action |-> "increase", suggested_value |-> "0.75"]) ],
    low_context_relevancy |->
      [ suggestion |-> "Optimize document chunking or improve embeddings quality",
        parameter_adjustments |->
          ("indexing.chunk_size" :> [action |-> "adjust", suggested_value |-> "512"])
          @@ ("indexing.chunk_overlap" :> [action |-> "adjust", suggested_value |-> "50"]) ],
    low_faithfulness |->
      [ suggestion |-> "Add explicit instructions to cite sources and not invent",
        parameter_adjustments |->
          ("generator.temperature" :> [action |-> "decrease", suggested_value |-> "0.3"])
          @@ ("generator.system_prompt" :>
                [action |-> "append", suggested_value |-> "IMPORTANT: Base your answer ONLY"]) ],
    low_answer_relevancy |->
      [ suggestion |-> "Improve the prompt to guide towards more direct answers",
        parameter_adjustments |->
          ("generator.system_prompt" :>
             [action |-> "append", suggested_value |-> "Answer concisely and directly"]) ],
    high_hallucination_rate |->
      [ suggestion |-> "Reduce LLM temperature and strengthen prompt guardrails",
        parameter_adjustments |->
          ("generator.temperature" :> [action |-> "decrease", suggested_value |-> "0.2"])
          @@ ("generator.max_tokens" :> [action |-> "decrease", suggested_value |-> "1024"])
          @@ ("generator.system_prompt" :>
                [action |-> "append", suggested_value |-> "ABSOLUTE RULE: NEVER invent"]) ] ]

\* parameter_adjustments=rule.get("parameter_adjustments"): in core the field of the
\* Recommendation dataclass holds the dict of the rule table itself; in legacy
\* RecommendationSchema validates the argument into a dict of its own; a missing
\* rule gives None in both
parameter_adjustments_object(rule_key, lang) ==
  IF rule_key \notin DOMAIN RECOMMENDATION_RULES THEN NoObject
  ELSE IF lang = "core"
       THEN RuleObject("RECOMMENDATION_RULES", rule_key, "parameter_adjustments")
       ELSE NewObject

\* variant: the hallucination comparison is the wrong way round
_get_rule_key_swapped(metric_name, threshold, value) ==
  IF metric_name = "hallucination_rate"
  THEN IF RatLt(value, Val(threshold)) THEN "high_hallucination_rate" ELSE ""
  ELSE IF RatLt(value, Val(threshold)) THEN "low_" \o metric_name ELSE ""

\* variant: the key ignores the comparison
_get_rule_key_unchecked(metric_name, threshold, value) ==
  IF metric_name = "hallucination_rate" THEN "high_hallucination_rate"
  ELSE "low_" \o metric_name

\* Determine the rule key based on metric and comparison
_get_rule_key(metric_name, threshold, value) ==
  IF metric_name = "hallucination_rate"
  THEN IF RatLt(Val(threshold), value) THEN "high_hallucination_rate" ELSE ""
  ELSE IF RatLt(value, Val(threshold)) THEN "low_" \o metric_name ELSE ""

\* the fallback of rule.get("suggestion", ...): English in core, French in legacy
GenericSuggestion(metric_name, lang) ==
  IF lang = "core" THEN "Investigate the " \o metric_name \o " issue"
  ELSE "Investiguer le probleme de " \o metric_name

\* variant: the priority is the member's name, not its value
_issue_to_recommendation_name(issue, lang) ==
  LET rule_key == _get_rule_key(issue.metric_name, issue.threshold, issue.metric_value)
      known == rule_key \in DOMAIN RECOMMENDATION_RULES
  IN [ component |-> issue.component,
       issue |-> [ symptom |-> issue.symptom,
                   causes |-> SubSeq(issue.probable_causes, 1,
                                     IF Len(issue.probable_causes) < 3
                                     THEN Len(issue.probable_causes) ELSE 3) ],
       suggestion |-> IF known THEN RECOMMENDATION_RULES[rule_key].suggestion
                      ELSE GenericSuggestion(issue.metric_name, lang),
       priority |-> issue.severity,
       parameter_adjustments |-> IF known THEN RECOMMENDATION_RULES[rule_key].parameter_adjustments
                                 ELSE NoAdjustments,
       parameter_adjustments_id |-> parameter_adjustments_object(rule_key, lang) ]

\* variant: the causes block lists every cause of the issue
_issue_to_recommendation_all_causes(issue, lang) ==
  LET rule_key == _get_rule_key(issue.metric_name, issue.threshold, issue.metric_value)
      known == rule_key \in DOMAIN RECOMMENDATION_RULES
  IN [ component |-> issue.component,
       issue |-> [ symptom |-> issue.symptom, causes |-> issue.probable_causes ],
       suggestion |-> IF known THEN RECOMMENDATION_RULES[rule_key].suggestion
                      ELSE GenericSuggestion(issue.metric_name, lang),
       priority |-> Severity[issue.severity],
       parameter_adjustments |-> IF known THEN RECOMMENDATION_RULES[rule_key].parameter_adjustments
                                 ELSE NoAdjustments,
       parameter_adjustments_id |-> parameter_adjustments_object(rule_key, lang) ]

\* Convert a diagnosed issue to a recommendation
_issue_to_recommendation(issue, lang) ==
  LET rule_key == _get_rule_key(issue.metric_name, issue.threshold, issue.metric_value)
      known == rule_key \in DOMAIN RECOMMENDATION_RULES
  IN [ component |-> issue.component,
       issue |-> [ symptom |-> issue.symptom,
                   causes |-> SubSeq(issue.probable_causes, 1,
                                     IF Len(issue.probable_causes) < 3
                                     THEN Len(issue.probable_causes) ELSE 3) ],
       suggestion |-> IF known THEN RECOMMENDATION_RULES[rule_key].suggestion
                      ELSE GenericSuggestion(issue.metric_name, lang),
       priority |-> Severity[issue.severity],
       parameter_adjustments |-> IF known THEN RECOMMENDATION_RULES[rule_key].parameter_adjustments
                                 ELSE NoAdjustments,
       parameter_adjustments_id |-> parameter_adjustments_object(rule_key, lang) ]

\* variant: an issue without a rule is skipped
generate_recommendations_skip_unmapped(is, lang) ==
  LET kept == SelectSeq(is, LAMBDA x : _get_rule_key(x.metric_name, x.threshold, x.metric_value)
                                      \in DOMAIN RECOMMENDATION_RULES)
  IN [i \in 1..Len(kept) |-> _issue_to_recommendation(kept[i], lang)]

\* generate_recommendations(issues): one recommendation per issue, appended in order
generate_recommendations(is, lang) ==
  IF is = <<>> THEN <<>>
  ELSE [i \in 1..Len(is) |-> _issue_to_recommendation(is[i], lang)]

-----------------------------------------------------------------------------
(* Persistence: rems.models.session.get_session and its two users          *)

\* the rows a session holds that were added and not yet committed
Pending(trace) ==
  SelectSeq(trace, LAMBDA op : op \in {"add Evaluation", "add EvaluationResult",
                                       "add Recommendation"})

\* variant: a failure is not followed by a rollback
get_session_without_rollback(body, body_raises, commit_raises) ==
  IF body_raises
  THEN [trace |-> body \o <<"close">>, raised |-> TRUE, rows |-> <<>>]
  ELSE IF commit_raises
  THEN [trace |-> body \o <<"commit raised", "close">>, raised |-> TRUE, rows |-> <<>>]
  ELSE [trace |-> body \o <<"commit", "close">>, raised |-> FALSE, rows |-> Pending(body)]

\* with get_session() as session: <body>.  `body` is what the block did with the
\* session before it finished or raised an Exception.  The result is the sequence
\* of operations the session saw, whether the exception left the with statement,
\* and the rows that became durable.
get_session(body, body_raises, commit_raises) ==
  IF body_raises
  THEN \* except Exception: session.rollback(); raise / finally: session.close()
       [trace |-> body \o <<"rollback", "close">>, raised |-> TRUE, rows |-> <<>>]
  ELSE IF commit_raises
  THEN [trace |-> body \o <<"commit raised", "rollback", "close">>, raised |-> TRUE,
        rows |-> <<>>]
  ELSE \* yield session; session.commit() / finally: session.close()
       [trace |-> body \o <<"commit", "close">>, raised |-> FALSE, rows |-> Pending(body)]

\* EvaluationOrchestrator._store_results: one Evaluation, a flush to obtain its id,
\* one EvaluationResult per merged result; the flush or the commit may fail
_store_results(values, failure) ==
  get_session(IF failure = "flush" THEN <<"add Evaluation", "flush raised">>
              ELSE <<"add Evaluation", "flush">>
                   \o [i \in DOMAIN values |-> "add EvaluationResult"],
              failure = "flush", failure = "commit")

\* RecommendationEngine._store_recommendations: one Recommendation per
\* recommendation; the commit may fail
_store_recommendations(recommendations, failure) ==
  get_session([i \in DOMAIN recommendations |-> "add Recommendation"],
              FALSE, failure = "commit")

\* the collaborator failures explored for a run over the given interactions
Failures(interactions, points) ==
  {"none"} \cup (IF Len(interactions) <= MaxFailing THEN points ELSE {})

-----------------------------------------------------------------------------
(* Inputs                                                                  *)

\* all sequences over S of length lo..hi
SeqsOf(S, lo, hi) == UNION {[1..k -> S] : k \in lo..hi}

\* aggregates handed directly to diagnose; answer relevancy is a cosine similarity
\* and can be negative
MetricsInputs ==
  [ avg_context_precision : {None, Val(5), Val(6), Val(7), Val(12), Val(13), Val(14)},
    avg_context_relevancy : {None, Val(6), Val(13), Val(14)},
    avg_faithfulness : {None, Val(6), Val(13), Val(14)},
    avg_answer_relevancy : {None, Val(-2), Val(6), Val(13), Val(14)},
    hallucination_rate : {None, Val(0), Val(2), [n |-> 9, d |-> 4], Val(3), Val(4)},
    total_hallucinations : {0},
    score_distribution : {[b \in Buckets |-> 0]},
    has_distribution : {FALSE} ]

\* issues handed directly to generate_recommendations
IssueInputs ==
  [ component : {"retriever"},
    symptom : {[metric_name |-> "", text |-> "symptom", value |-> 0, threshold |-> 0]},
    probable_causes : {<<"c1", "c2">>, <<"c1", "c2", "c3", "c4">>},
    probable_causes_id : {NewObject},
    severity : {"CRITICAL", "LOW"},
    metric_name : {"context_precision", "hallucination_rate", "latency"},
    metric_value : {Val(4), Val(14)},
    threshold : {10} ]

-----------------------------------------------------------------------------
(* State machine                                                           *)

\* scores handed directly to _get_quality_level: every cut point of every
\* configuration, values on both sides of them, and a weighted sum above 1
ScoreInputs ==
  { Val(0), Val(4), Val(6), Val(7), Val(8), Val(12), Val(13), Val(15), Val(16),
    Val(18), Val(20), [n |-> 35, d |-> 2], Val(25) }

Init ==
  /\ \/ impl = "core" /\ config \in CoreConfigs
     \/ impl = "legacy" /\ config \in LegacyConfigs
  /\ pc = "idle"
  /\ results = <<>>
  /\ metrics = EvaluationResult
  /\ issues = <<>>
  /\ recs = <<>>
  /\ summary = NoSummary
  /\ raised = ""
  /\ calls = <<>>
  /\ graded = <<>>
  /\ supplied = <<>>
  /\ sessions = <<>>

\* RAGEvaluator.evaluate(interactions)
Evaluate ==
  /\ impl = "core"
  /\ pc = "idle"
  /\ \E interactions \in SeqsOf(InteractionItems, 0, MaxResults)
                          \cup SeqsOf(CoreItems, 0, MaxMixed) :
       LET parsing == _parse_interactions(interactions)
           parsed_interactions == parsing.parsed
       IN /\ supplied' = interactions
          /\ IF parsing.raised # ""
             THEN \* raise TypeError(f"Expected Interaction or dict, got ...")
                  /\ raised' = parsing.raised
                  /\ calls' = <<"evaluate">>
                  /\ pc' = "failed"
                  /\ UNCHANGED <<results, metrics, issues, recs, summary>>
             ELSE IF parsed_interactions = <<>>
             THEN \* raise ValueError("No interactions provided for evaluation")
                  /\ raised' = "ValueError"
                  /\ calls' = <<"evaluate">>
                  /\ pc' = "failed"
                  /\ UNCHANGED <<results, metrics, issues, recs, summary>>
             ELSE LET interaction_results ==
                        evaluate_interactions(Field(parsed_interactions, "row"), config)
                      m == _aggregate_metrics(interaction_results, config)
                      found == diagnose(m, config)
                  IN /\ results' = interaction_results
                     /\ metrics' = m
                     /\ summary' = Compose(m, config, config.retrieval_weight,
                                           config.generation_weight, Len(parsed_interactions))
                     /\ issues' = found
                     /\ recs' = generate_recommendations(found, "core")
                     /\ calls' = <<"evaluate", "score", "aggregate", "compose", "diagnose",
                                  "recommend">>
                     /\ pc' = "recommended"
                     /\ UNCHANGED raised
  /\ UNCHANGED <<impl, config, graded, sessions>>

\* EvaluationOrchestrator.evaluate(interactions), store_results at its default
OrchestratorEvaluate ==
  /\ impl = "legacy"
  /\ pc = "idle"
  /\ \E interactions \in SeqsOf(LegacyInteractions, 0, MaxResults) :
       LET store_results == TRUE
           retrieval_results == RetrievalEvaluator_evaluate(interactions)
           generator_results == GeneratorEvaluator_evaluate(interactions)
           all_ids == DOMAIN retrieval_results \cup DOMAIN generator_results
           \* each evaluator calls the scorer unless no interaction has documents
           scoring == IF valid_interactions(interactions) = {} THEN <<>>
                      ELSE <<"score", "score">>
       IN \E order \in Orders(all_ids),
             failure \in Failures(interactions,
                                  (IF scoring = <<>> THEN {} ELSE {"score"})
                                  \cup {"flush", "commit"}) :
            LET merged == _merge_results(retrieval_results, generator_results, order)
                m == _calculate_metrics(merged, config)
                stored == _store_results(merged, failure)
            IN /\ supplied' = interactions
               /\ IF failure = "score"
                  THEN \* the scorer raised inside the first evaluator
                       /\ calls' = <<"evaluate", "score">>
                       /\ sessions' = <<>>
                       /\ raised' = "Exception"
                       /\ pc' = "failed"
                       /\ UNCHANGED <<results, metrics, summary>>
                  ELSE IF store_results /\ stored.raised
                  THEN \* get_session re-raised out of _store_results
                       /\ calls' = <<"evaluate">> \o scoring \o <<"aggregate", "compose", "store">>
                       /\ sessions' = <<stored>>
                       /\ raised' = "Exception"
                       /\ pc' = "failed"
                       /\ UNCHANGED <<results, metrics, summary>>
                  ELSE /\ results' = merged
                       /\ metrics' = m
                       /\ summary' = Compose(m, config, RETRIEVAL_WEIGHT, GENERATION_WEIGHT,
                                             Len(interactions))
                       /\ calls' = <<"evaluate">> \o scoring \o <<"aggregate", "compose">>
                                   \o (IF store_results THEN <<"store">> ELSE <<>>)
                       /\ sessions' = IF store_results THEN <<stored>> ELSE <<>>
                       /\ pc' = "evaluated"
                       /\ UNCHANGED raised
  /\ issues' = <<>>
  /\ recs' = <<>>
  /\ UNCHANGED <<impl, config, graded>>

\* RecommendationEngine.generate_recommendations(summary), store_in_db at its default
RecommendationEngine_generate ==
  /\ impl = "legacy"
  /\ pc = "evaluated"
  /\ LET store_in_db == TRUE
         found == DiagnosticEngine_diagnose(metrics, DiagnosticEngine_thresholds(config))
         recommendations == generate_recommendations(found, "legacy")
     IN \E failure \in Failures(supplied, IF found # <<>> /\ store_in_db THEN {"commit"}
                                          ELSE {}) :
          LET stored == _store_recommendations(recommendations, failure)
          IN IF failure # "none"
             THEN \* get_session re-raised out of _store_recommendations
                  /\ calls' = calls \o <<"diagnose", "recommend", "store">>
                  /\ sessions' = Append(sessions, stored)
                  /\ raised' = "Exception"
                  /\ pc' = "failed"
                  /\ UNCHANGED <<issues, recs>>
             ELSE /\ issues' = found
                  /\ recs' = recommendations
                  /\ calls' = calls \o <<"diagnose">>
                              \o (IF found = <<>> THEN <<>> ELSE <<"recommend">>)
                              \o (IF found # <<>> /\ store_in_db THEN <<"store">> ELSE <<>>)
                  /\ sessions' = IF found # <<>> /\ store_in_db THEN Append(sessions, stored)
                                 ELSE sessions
                  /\ pc' = "recommended"
                  /\ UNCHANGED raised
  /\ UNCHANGED <<impl, config, results, metrics, summary, graded, supplied>>

\* cmd_evaluate after both calls: export_to_yaml and the report generator, either of
\* which may fail
ExportAndReport ==
  /\ impl = "legacy"
  /\ pc = "recommended"
  /\ calls # <<>> /\ calls[1] = "evaluate"
  /\ supplied # <<>>
  /\ Len(supplied) <= MaxFailing
  /\ \E failure \in {"none", "export"} :
       IF failure = "none"
       THEN /\ pc' = "reported"
            /\ UNCHANGED raised
       ELSE /\ pc' = "failed"
            /\ raised' = "Exception"
  /\ calls' = Append(calls, "export")
  /\ UNCHANGED <<impl, config, results, metrics, issues, recs, summary, graded, supplied,
                 sessions>>

\* RAGEvaluator._aggregate_metrics(results) called on its own, on the empty list
\* or on one result (longer lists reach it through evaluate)
AggregateMetrics ==
  /\ impl = "core"
  /\ pc = "idle"
  /\ \E rows \in {<<>>} \cup {<<row>> : row \in CoreRows} :
       LET interaction_results == evaluate_interactions(rows, config)
       IN /\ results' = interaction_results
          /\ metrics' = _aggregate_metrics(interaction_results, config)
  /\ calls' = <<"aggregate">>
  /\ pc' = "aggregated"
  /\ UNCHANGED <<impl, config, issues, recs, summary, raised, graded, supplied, sessions>>

\* _get_quality_level(score) called on a score
GetQualityLevel ==
  /\ pc \in {"idle", "graded"}
  /\ Len(graded) < MaxGraded
  /\ \E score \in ScoreInputs :
       graded' = Append(graded, [score |-> score, level |-> _get_quality_level(score, config)])
  /\ pc' = "graded"
  /\ UNCHANGED <<impl, config, results, metrics, issues, recs, summary, raised, calls,
                 supplied, sessions>>

\* diagnose(metrics, config) / DiagnosticEngine.diagnose(summary) called on an aggregate
Diagnose ==
  /\ pc = "idle"
  /\ \E m \in MetricsInputs :
       /\ metrics' = m
       /\ issues' = IF impl = "core" THEN diagnose(m, config)
                    ELSE DiagnosticEngine_diagnose(m, DiagnosticEngine_thresholds(config))
  /\ results' = <<>>
  /\ recs' = <<>>
  /\ calls' = <<"diagnose">>
  /\ pc' = "diagnosed"
  /\ UNCHANGED <<impl, config, summary, raised, graded, supplied, sessions>>

\* generate_recommendations(issues) on the issues of the last diagnosis
Recommend ==
  /\ pc = "diagnosed"
  /\ recs' = generate_recommendations(issues, impl)
  /\ calls' = Append(calls, "recommend")
  /\ pc' = "recommended"
  /\ UNCHANGED <<impl, config, results, metrics, issues, summary, raised, graded, supplied,
                 sessions>>

\* generate_recommendations(issues) called with issues built by the caller
RecommendIssues ==
  /\ impl = "core"
  /\ pc = "idle"
  /\ \E is \in SeqsOf(IssueInputs, 0, MaxIssues) :
       /\ issues' = is
       /\ recs' = generate_recommendations(is, "core")
  /\ results' = <<>>
  /\ metrics' = EvaluationResult
  /\ calls' = <<"recommend">>
  /\ pc' = "recommended_given"
  /\ UNCHANGED <<impl, config, summary, raised, graded, supplied, sessions>>

\* the call has returned or raised; the next one starts from fresh values
Return ==
  /\ pc \in {"recommended", "recommended_given", "aggregated", "graded", "failed", "reported"}
  /\ pc' = "idle"
  /\ results' = <<>>
  /\ metrics' = EvaluationResult
  /\ issues' = <<>>
  /\ recs' = <<>>
  /\ summary' = NoSummary
  /\ raised' = ""
  /\ calls' = <<>>
  /\ graded' = <<>>
  /\ supplied' = <<>>
  /\ sessions' = <<>>
  /\ UNCHANGED <<impl, config>>

Next ==
  \/ Evaluate
  \/ OrchestratorEvaluate
  \/ RecommendationEngine_generate
  \/ ExportAndReport
  \/ AggregateMetrics
  \/ GetQualityLevel
  \/ Diagnose
  \/ Recommend
  \/ RecommendIssues
  \/ Return

Spec == Init /\ [][Next]_vars

-----------------------------------------------------------------------------
(* Vocabulary of the properties                                            *)

\* the aggregate was computed from `results` by the aggregator
Aggregated == metrics.has_distribution

\* `issues` is what diagnose returned for `metrics`
Diagnosed == pc \in {"diagnosed", "recommended"}

\* `recs` is what generate_recommendations returned for `issues`
Recommended == pc \in {"recommended", "recommended_given"}

AvgOf(m, name) == m["avg_" \o name]

AggregateOf(m, name) == IF name = "hallucination_rate" THEN m.hallucination_rate
                        ELSE AvgOf(m, name)

\* positions of the results that carry a value for the metric
Carrying(rs, name) == {i \in DOMAIN rs : rs[i][name].d # 0}

RECURSIVE TotalOver(_, _, _)
TotalOver(rs, name, S) ==
  IF S = {} THEN 0
  ELSE LET i == CHOOSE i \in S : TRUE
       IN rs[i][name].n + TotalOver(rs, name, S \ {i})

\* the metric is present and on the wrong side of its threshold
Breaches(m, name, th) ==
  LET v == AggregateOf(m, name)
  IN /\ v.d # 0
     /\ IF name = "hallucination_rate" THEN v.n > th[name] * v.d
        ELSE v.n < th[name] * v.d

IssuesFor(name) == {i \in DOMAIN issues : issues[i].metric_name = name}

MetricNames == {Metrics[k] : k \in DOMAIN Metrics}

-----------------------------------------------------------------------------
\* C1: for each of the four metrics the aggregate over a non-empty result list is
\* the arithmetic mean of all non-null values of that metric (0.0 included), and
\* it is null iff no result carries a non-null value.
C1_AverageOfNonNull ==
  (Aggregated /\ results # <<>>) =>
    \A name \in LowerBoundMetrics :
      LET S == Carrying(results, name)
          avg == AvgOf(metrics, name)
      IN /\ (avg.d = 0) <=> (S = {})
         /\ S # {} => avg.n * Cardinality(S) = TotalOver(results, name, S) * avg.d

\* C2: diagnose emits exactly one issue for each metric that breaches its threshold
\* (strictly below for the four lower-bound metrics, strictly above for
\* hallucination_rate) and none for any other metric, each metric on its own.
C2_OneIssuePerBreach ==
  Diagnosed =>
    /\ \A name \in MetricNames :
         Cardinality(IssuesFor(name)) = IF Breaches(metrics, name, Thresholds) THEN 1 ELSE 0
    /\ \A i \in DOMAIN issues : issues[i].metric_name \in MetricNames

\* a metric exactly at its threshold raised nothing while another metric raised an issue
C2_Witness ==
  /\ pc = "diagnosed"
  /\ \E name \in LowerBoundMetrics :
       /\ AvgOf(metrics, name).d # 0
       /\ AvgOf(metrics, name).n = Thresholds[name] * AvgOf(metrics, name).d
       /\ IssuesFor(name) = {}
  /\ Len(issues) >= 2

\* the relative deviation of an issue, as numerator and denominator (denominator > 0):
\* lower-bound (t - v)/t, or 1 - v when t = 0; upper-bound (v - t)/t, or v when t = 0
DevNum(x) ==
  IF x.metric_name = "hallucination_rate"
  THEN IF x.threshold = 0 THEN x.metric_value.n
       ELSE x.metric_value.n - x.threshold * x.metric_value.d
  ELSE IF x.threshold = 0 THEN Scale * x.metric_value.d - x.metric_value.n
       ELSE x.threshold * x.metric_value.d - x.metric_value.n

DevDen(x) ==
  IF x.threshold = 0 THEN Scale * x.metric_value.d ELSE x.threshold * x.metric_value.d

\* C3: the severity of an emitted issue follows its relative deviation through the
\* strict cut points 0.5, 0.25 and 0.1; a hallucination rate of 0.2 against a
\* threshold of 0.1 is critical.
C3_SeverityByDeviation ==
  Diagnosed =>
    /\ \A i \in DOMAIN issues :
         LET x == issues[i]
         IN x.severity =
              IF 2 * DevNum(x) > DevDen(x) THEN "CRITICAL"
              ELSE IF 4 * DevNum(x) > DevDen(x) THEN "HIGH"
              ELSE IF 10 * DevNum(x) > DevDen(x) THEN "MEDIUM"
              ELSE "LOW"
    /\ ( /\ metrics.hallucination_rate.d # 0
         /\ 5 * metrics.hallucination_rate.n = Scale * metrics.hallucination_rate.d
         /\ 10 * Thresholds.hallucination_rate = Scale )
       => \E i \in DOMAIN issues : /\ issues[i].metric_name = "hallucination_rate"
                                   /\ issues[i].severity = "CRITICAL"

\* a rate of 0.2 against 0.1 was diagnosed, next to an issue whose deviation is exactly 0.5
C3_Witness ==
  /\ pc = "diagnosed"
  /\ 5 * metrics.hallucination_rate.n = Scale * metrics.hallucination_rate.d
  /\ metrics.hallucination_rate.d # 0
  /\ 10 * Thresholds.hallucination_rate = Scale
  /\ \E i \in DOMAIN issues : 2 * DevNum(issues[i]) = DevDen(issues[i])
  /\ \E i \in DOMAIN issues : issues[i].severity = "LOW"

\* C4: no issue is emitted for a metric whose aggregate is null, whatever the thresholds.
C4_NoIssueForNull ==
  Diagnosed =>
    \A name \in MetricNames :
      AggregateOf(metrics, name).d = 0 => IssuesFor(name) = {}

\* a null metric raised nothing in a diagnosis that raised issues for every other metric
C4_Witness ==
  /\ pc = "diagnosed"
  /\ \E name \in MetricNames :
       /\ AggregateOf(metrics, name).d = 0
       /\ Thresholds[name] > 0
       /\ IssuesFor(name) = {}
  /\ Len(issues) = 4

\* position of a metric in the order the checks run
EmissionRank(name) == CHOOSE k \in DOMAIN Metrics : Metrics[k] = name

SeverityRank(sev) ==
  CASE sev = "CRITICAL" -> 0 [] sev = "HIGH" -> 1 [] sev = "MEDIUM" -> 2 [] sev = "LOW" -> 3

\* C5: the issue list is ordered critical, high, medium, low, and issues of equal
\* severity keep the emission order of their metrics.
C5_SortedBySeverity ==
  Diagnosed =>
    \A i, j \in DOMAIN issues :
      i < j =>
        /\ SeverityRank(issues[i].severity) <= SeverityRank(issues[j].severity)
        /\ SeverityRank(issues[i].severity) = SeverityRank(issues[j].severity)
             => EmissionRank(issues[i].metric_name) < EmissionRank(issues[j].metric_name)

\* the sort moved a later-emitted issue ahead of an earlier one, and two issues tie
C5_Witness ==
  /\ pc = "diagnosed"
  /\ Len(issues) >= 3
  /\ \E i, j \in DOMAIN issues :
       i < j /\ EmissionRank(issues[i].metric_name) > EmissionRank(issues[j].metric_name)
  /\ \E i, j \in DOMAIN issues : i # j /\ issues[i].severity = issues[j].severity

\* C6: generate_recommendations returns one recommendation per issue, in the same
\* order, the i-th built from the i-th issue, for every issue list, empty included.
C6_OneRecommendationPerIssue ==
  Recommended =>
    /\ Len(recs) = Len(issues)
    /\ \A i \in DOMAIN issues :
         /\ recs[i].component = issues[i].component
         /\ recs[i].issue.symptom = issues[i].symptom

\* recommendations were produced for issues of two different components
C6_Witness ==
  /\ Recommended
  /\ Len(recs) >= 2
  /\ \E i, j \in DOMAIN recs : recs[i].component # recs[j].component

\* the value of a severity
SeverityValue(sev) ==
  CASE sev = "CRITICAL" -> "critical" [] sev = "HIGH" -> "high"
    [] sev = "MEDIUM" -> "medium" [] sev = "LOW" -> "low"

\* C7: the priority of the recommendation built from an issue equals the issue's
\* severity (critical, high, medium or low).
C7_PriorityIsSeverity ==
  Recommended =>
    \A i \in DOMAIN issues :
      i \in DOMAIN recs => recs[i].priority = SeverityValue(issues[i].severity)

\* recommendations of two different priorities were produced
C7_Witness ==
  /\ Recommended
  /\ Len(recs) >= 2
  /\ \E i, j \in DOMAIN recs : recs[i].priority = "critical" /\ recs[j].priority = "low"

\* the rule key the diagnostic engine files a metric under
DiagnosticKey(name) ==
  IF name = "hallucination_rate" THEN "high_hallucination_rate" ELSE "low_" \o name

\* C8: every issue diagnose emits resolves to an entry of RECOMMENDATION_RULES, so
\* its recommendation carries that rule's suggestion and parameter adjustments and
\* never the generic fallback; the two rule tables have the same five keys.
C8_RuleKeysMirror ==
  /\ DOMAIN RECOMMENDATION_RULES = DOMAIN DIAGNOSTIC_RULES
  /\ Cardinality(DOMAIN DIAGNOSTIC_RULES) = 5
  /\ (pc = "recommended") =>
       \A i \in DOMAIN issues :
         LET key == DiagnosticKey(issues[i].metric_name)
         IN /\ key \in DOMAIN RECOMMENDATION_RULES
            /\ i \in DOMAIN recs
            /\ recs[i].suggestion = RECOMMENDATION_RULES[key].suggestion
            /\ recs[i].parameter_adjustments = RECOMMENDATION_RULES[key].parameter_adjustments
            /\ recs[i].parameter_adjustments # NoAdjustments

\* all five rules were resolved in one run
C8_Witness ==
  /\ pc = "recommended"
  /\ Len(issues) = 5
  /\ Len(recs) = 5

\* the issue names no monitored metric, or its value does not breach its stored threshold
Unmapped(x) ==
  \/ x.metric_name \notin MetricNames
  \/ x.metric_name = "hallucination_rate"
       /\ x.metric_value.n <= x.threshold * x.metric_value.d
  \/ x.metric_name \in LowerBoundMetrics
       /\ x.metric_value.n >= x.threshold * x.metric_value.d

\* C9: an issue whose rule key is not in the rule table still yields a
\* recommendation, with the generic suggestion naming the metric and no parameter
\* adjustments; the issue is not dropped.
C9_GenericFallback ==
  (pc = "recommended_given") =>
    /\ Len(recs) = Len(issues)
    /\ \A i \in DOMAIN issues :
         (i \in DOMAIN recs /\ Unmapped(issues[i])) =>
           /\ recs[i].suggestion = "Investigate the " \o issues[i].metric_name \o " issue"
           /\ recs[i].parameter_adjustments = NoAdjustments
           /\ recs[i].component = issues[i].component

\* an unknown metric and a non-breaching value were both turned into recommendations
C9_Witness ==
  /\ pc = "recommended_given"
  /\ Len(recs) = 2
  /\ issues[1].metric_name = "latency"
  /\ issues[2].metric_name = "context_precision" /\ Unmapped(issues[2])
  /\ recs[2].parameter_adjustments = NoAdjustments

CutPointsOrdered ==
  /\ config.excellent_threshold > config.good_threshold
  /\ config.good_threshold > config.acceptable_threshold
  /\ config.acceptable_threshold > config.poor_threshold

BucketTotal(dist) ==
  dist.excellent + dist.good + dist.acceptable + dist.poor + dist.critical

\* C10: with cut points in decreasing order, the bucket counts of score_distribution
\* sum to the number of interaction results with a non-null overall_score.
C10_BucketsSumToScored ==
  (Aggregated /\ CutPointsOrdered) =>
    BucketTotal(metrics.score_distribution)
      = Cardinality({i \in DOMAIN results : results[i].overall_score.d # 0})

\* two scored results fell into different buckets, one of them exactly on a cut point
C10_Witness ==
  /\ Aggregated
  /\ CutPointsOrdered
  /\ Len(results) = 2
  /\ BucketTotal(metrics.score_distribution) = 2
  /\ \E b \in Buckets : metrics.score_distribution[b] = 1
  /\ \E i \in DOMAIN results :
       /\ results[i].overall_score.d # 0
       /\ results[i].overall_score.n = config.good_threshold * results[i].overall_score.d

\* positions of the results whose overall score s satisfies lo <= s, and s < hi
ScoredAtLeast(lo) ==
  {i \in DOMAIN results : results[i].overall_score.d # 0
                          /\ lo * results[i].overall_score.d <= results[i].overall_score.n}

ScoredBelow(hi) ==
  {i \in DOMAIN results : results[i].overall_score.d # 0
                          /\ results[i].overall_score.n < hi * results[i].overall_score.d}

\* C11: with cut points in decreasing order each bucket counts the scores of the
\* half-open interval that includes its lower cut point: a score equal to a cut
\* point is counted in the bucket above it, a score below t_poor in critical.
C11_LowerEndInclusive ==
  (Aggregated /\ CutPointsOrdered) =>
    LET dist == metrics.score_distribution
    IN /\ dist.excellent = Cardinality(ScoredAtLeast(config.excellent_threshold))
       /\ dist.good = Cardinality(ScoredAtLeast(config.good_threshold)
                                  \cap ScoredBelow(config.excellent_threshold))
       /\ dist.acceptable = Cardinality(ScoredAtLeast(config.acceptable_threshold)
                                        \cap ScoredBelow(config.good_threshold))
       /\ dist.poor = Cardinality(ScoredAtLeast(config.poor_threshold)
                                  \cap ScoredBelow(config.acceptable_threshold))
       /\ dist.critical = Cardinality(ScoredBelow(config.poor_threshold))

\* one score exactly on t_poor was counted in poor, a lower one in critical
C11_Witness ==
  /\ Aggregated
  /\ CutPointsOrdered
  /\ Len(results) = 2
  /\ \E i, j \in DOMAIN results :
       /\ results[i].overall_score.d # 0
       /\ results[i].overall_score.n = config.poor_threshold * results[i].overall_score.d
       /\ j \in ScoredBelow(config.poor_threshold)
  /\ metrics.score_distribution.poor = 1
  /\ metrics.score_distribution.critical = 1

\* the cut point a quality level starts at (levels 2..5 of QualityLevel)
CutPoint(c, k) ==
  CASE k = 5 -> c.excellent_threshold [] k = 4 -> c.good_threshold
    [] k = 3 -> c.acceptable_threshold [] k = 2 -> c.poor_threshold

LevelRank(level) == CHOOSE k \in DOMAIN QualityLevel : QualityLevel[k] = level

\* rank of the highest level whose cut point the score meets or exceeds (1: none)
HighestMet(score, c) ==
  LET met == {k \in 2..5 : score.n >= CutPoint(c, k) * score.d}
  IN IF met = {} THEN 1 ELSE CHOOSE k \in met : \A l \in met : l <= k

\* C12: the quality level of a score is the highest level whose lower cut point the
\* score meets or exceeds, critical when it meets none; a score equal to a cut
\* point gets the level that starts there.
C12_HighestLevelMet ==
  /\ summary.produced =>
       /\ summary.quality_level \in {QualityLevel[k] : k \in DOMAIN QualityLevel}
       /\ LevelRank(summary.quality_level) = HighestMet(summary.overall_score, config)
  /\ \A i \in DOMAIN graded :
       /\ graded[i].level \in {QualityLevel[k] : k \in DOMAIN QualityLevel}
       /\ LevelRank(graded[i].level) = HighestMet(graded[i].score, config)

\* a score exactly on t_good was graded good and one exactly on t_poor poor
C12_Witness ==
  /\ pc = "graded"
  /\ CutPointsOrdered
  /\ Len(graded) = 2
  /\ graded[1].score = Val(config.good_threshold) /\ graded[1].level = "good"
  /\ graded[2].score = Val(config.poor_threshold) /\ graded[2].level = "poor"

\* C13: under one configuration, of two scores the higher one never gets a lower
\* quality level (critical < poor < acceptable < good < excellent).
C13_QualityLevelMonotonic ==
  \A i, j \in DOMAIN graded :
    graded[i].score.n * graded[j].score.d <= graded[j].score.n * graded[i].score.d
      => LevelRank(graded[i].level) <= LevelRank(graded[j].level)

\* two different scores were graded with different levels under misordered cut points
C13_Witness ==
  /\ pc = "graded"
  /\ ~CutPointsOrdered
  /\ Len(graded) = 2
  /\ graded[1].score.n * graded[2].score.d < graded[2].score.n * graded[1].score.d
  /\ LevelRank(graded[1].level) < LevelRank(graded[2].level)

\* the two issues are breaches of the same kind (both lower-bound or both upper-bound)
SameKind(x, y) ==
  (x.metric_name = "hallucination_rate") <=> (y.metric_name = "hallucination_rate")

\* C14: of two breaches of the same kind, the one with the larger relative deviation
\* from its threshold never gets a lower severity.
C14_SeverityMonotonic ==
  Diagnosed =>
    \A i, j \in DOMAIN issues :
      ( /\ SameKind(issues[i], issues[j])
        /\ DevNum(issues[i]) * DevDen(issues[j]) >= DevNum(issues[j]) * DevDen(issues[i]) )
      => SeverityRank(issues[i].severity) <= SeverityRank(issues[j].severity)

\* two lower-bound breaches with different deviations got a high and a medium severity
C14_Witness ==
  /\ pc = "diagnosed"
  /\ \E i, j \in DOMAIN issues :
       /\ issues[i].metric_name # "hallucination_rate"
       /\ issues[j].metric_name # "hallucination_rate"
       /\ DevNum(issues[i]) * DevDen(issues[j]) > DevNum(issues[j]) * DevDen(issues[i])
       /\ issues[i].severity = "HIGH"
       /\ issues[j].severity = "MEDIUM"

\* s is the mean of whichever of a and b are not null, and 0.0 when both are
MeanOfPresent(s, a, b) ==
  /\ s.d # 0
  /\ (a.d = 0 /\ b.d = 0) => s.n = 0
  /\ (a.d # 0 /\ b.d = 0) => s.n * a.d = a.n * s.d
  /\ (a.d = 0 /\ b.d # 0) => s.n * b.d = b.n * s.d
  /\ (a.d # 0 /\ b.d # 0) => 2 * s.n * a.d * b.d = (a.n * b.d + b.n * a.d) * s.d

\* C15: retrieval_score is the mean of the non-null ones of avg_context_precision
\* and avg_context_relevancy, 0.0 when both are null, and equals
\* avg_context_precision when only avg_context_relevancy is null; generation_score
\* likewise over avg_faithfulness and avg_answer_relevancy.
C15_ComponentScores ==
  summary.produced =>
    /\ MeanOfPresent(summary.retrieval_score, metrics.avg_context_precision,
                     metrics.avg_context_relevancy)
    /\ MeanOfPresent(summary.generation_score, metrics.avg_faithfulness,
                     metrics.avg_answer_relevancy)
    /\ (metrics.avg_context_relevancy.d = 0 /\ metrics.avg_context_precision.d # 0)
         => RatLe(summary.retrieval_score, metrics.avg_context_precision)
            /\ RatLe(metrics.avg_context_precision, summary.retrieval_score)

\* a run without context relevancy scored retrieval by its context precision alone,
\* and generation by faithfulness and answer relevancy together
C15_Witness ==
  /\ summary.produced
  /\ metrics.avg_context_relevancy.d = 0
  /\ metrics.avg_context_precision.d # 0 /\ metrics.avg_context_precision.n > 0
  /\ summary.retrieval_score = metrics.avg_context_precision
  /\ metrics.avg_faithfulness.d # 0 /\ metrics.avg_answer_relevancy.d # 0
  /\ metrics.avg_faithfulness # metrics.avg_answer_relevancy

\* the weights each implementation composes with: the configuration's in core, the
\* module constants in legacy
Weights ==
  IF impl = "core"
  THEN [retrieval |-> config.retrieval_weight, generation |-> config.generation_weight]
  ELSE [retrieval |-> RETRIEVAL_WEIGHT, generation |-> GENERATION_WEIGHT]

\* C16: the overall score of a run summary is retrieval_weight * retrieval_score +
\* generation_weight * generation_score with the weights in force (0.35 and 0.65 by
\* default), and the summary's quality level is the level of that overall score.
C16_WeightedOverallScore ==
  /\ 100 * EvaluationConfig.retrieval_weight = 35 * Scale
  /\ 100 * EvaluationConfig.generation_weight = 65 * Scale
  /\ summary.produced =>
       LET r == summary.retrieval_score
           g == summary.generation_score
           o == summary.overall_score
       IN /\ o.d # 0
          /\ Scale * o.n * r.d * g.d
               = (Weights.retrieval * r.n * g.d + Weights.generation * g.n * r.d) * o.d
          /\ LevelRank(summary.quality_level) = HighestMet(o, config)

\* a run with non-default weights and different retrieval and generation scores
C16_Witness ==
  /\ summary.produced
  /\ Weights.retrieval # RETRIEVAL_WEIGHT
  /\ summary.retrieval_score.n > 0
  /\ summary.generation_score.n > 0
  /\ summary.retrieval_score.n * summary.generation_score.d
       # summary.generation_score.n * summary.retrieval_score.d
  /\ summary.quality_level = "good"

\* C17: over a non-empty result list total_hallucinations is the number of results
\* flagged has_hallucination and hallucination_rate is that number divided by the
\* number of results, so the count lies in 0..len(results) and the rate in [0, 1].
C17_HallucinationStatistics ==
  (Aggregated /\ results # <<>>) =>
    LET flagged == {i \in DOMAIN results : results[i].has_hallucination}
        rate == metrics.hallucination_rate
    IN /\ metrics.total_hallucinations = Cardinality(flagged)
       /\ rate.d # 0
       /\ rate.n * Len(results) = Cardinality(flagged) * Scale * rate.d
       /\ 0 <= metrics.total_hallucinations
       /\ metrics.total_hallucinations <= Len(results)
       /\ 0 <= rate.n /\ rate.n <= Scale * rate.d

\* one of two results was flagged and the other carries no faithfulness score
C17_Witness ==
  /\ Aggregated
  /\ Len(results) = 2
  /\ metrics.total_hallucinations = 1
  /\ 2 * metrics.hallucination_rate.n = Scale * metrics.hallucination_rate.d
  /\ \E i \in DOMAIN results : results[i].faithfulness.d = 0

\* the threshold the scoring stage flags hallucinations with: the configuration's
\* faithfulness threshold in core, GeneratorEvaluator's hallucination threshold in legacy
ScoringThreshold ==
  IF impl = "core" THEN config.faithfulness_threshold ELSE HALLUCINATION_THRESHOLD

EntryCalled == calls # <<>> /\ calls[1] = "evaluate"

\* the stage or collaborator was called during the run
Called(name) == \E k \in DOMAIN calls : calls[k] = name

\* C19: a run that is supplied no interactions fails at the entry point with an
\* error for the caller, without any scoring call, persistence write or summary.
C19_EmptyInputRejected ==
  (EntryCalled /\ supplied = <<>>) =>
    /\ raised # ""
    /\ ~Called("score")
    /\ ~Called("store")
    /\ ~summary.produced

\* C20: the aggregator fails with an empty-input error when it is given zero
\* results; it returns no aggregate for an empty result list.
C20_EmptyAggregateFails ==
  (Called("aggregate") /\ results = <<>>) => raised # ""

\* the smaller of two numbers
Min(a, b) == IF a < b THEN a ELSE b

\* C25: the issue text of a recommendation is the issue's symptom followed by a
\* causes block holding the first min(3, n) of the issue's n causes, in their
\* original order and no others; the fourth cause of a four-cause rule is omitted.
C25_IssueTextCauses ==
  Recommended =>
    /\ Len(recs) = Len(issues)
    /\ \A i \in DOMAIN recs :
         LET causes == issues[i].probable_causes
             listed == recs[i].issue.causes
         IN /\ recs[i].issue.symptom = issues[i].symptom
            /\ Len(listed) = Min(3, Len(causes))
            /\ \A k \in DOMAIN listed : listed[k] = causes[k]

\* one issue with two causes and one with four were turned into recommendations
C25_Witness ==
  /\ Recommended
  /\ \E i, j \in DOMAIN recs :
       /\ Len(issues[i].probable_causes) = 2 /\ Len(recs[i].issue.causes) = 2
       /\ Len(issues[j].probable_causes) = 4 /\ Len(recs[j].issue.causes) = 3

\* C26: over a non-empty result list, each metric with at least one non-null input
\* value has a non-null average that lies between the minimum and the maximum of
\* the metric's non-null input values.
C26_AverageWithinRange ==
  (Aggregated /\ results # <<>>) =>
    \A name \in LowerBoundMetrics :
      LET carrying == Carrying(results, name)
          avg == AvgOf(metrics, name)
      IN carrying # {} =>
           /\ ~IsNone(avg)
           /\ \E i \in carrying : RatLe(results[i][name], avg)
           /\ \E i \in carrying : RatLe(avg, results[i][name])

\* the issue reports a lower-bound metric at exactly half of a positive threshold
HalfMiss(x) ==
  /\ x.metric_name \in LowerBoundMetrics
  /\ x.threshold > 0
  /\ 2 * x.metric_value.n = x.threshold * x.metric_value.d

\* C27 as stated: a lower-bound metric at exactly half of its positive threshold
\* (relative deviation 0.5) is assigned severity critical.
C27_HalfMissIsCritical ==
  Diagnosed => \A i \in DOMAIN issues : HalfMiss(issues[i]) => issues[i].severity = "CRITICAL"

\* C27, amended: a lower-bound metric at exactly half of its positive threshold is
\* assigned severity high; critical is assigned only below half of the threshold.
C27_HalfMissIsHigh ==
  Diagnosed =>
    \A i \in DOMAIN issues :
      LET x == issues[i]
      IN /\ HalfMiss(x) => x.severity = "HIGH"
         /\ (x.metric_name \in LowerBoundMetrics /\ x.threshold > 0) =>
              (x.severity = "CRITICAL" <=> 2 * x.metric_value.n < x.threshold * x.metric_value.d)

\* context precision 0.25 against the threshold 0.5 was diagnosed as high
C27_Witness ==
  /\ Diagnosed
  /\ \E i \in DOMAIN issues :
       /\ HalfMiss(issues[i])
       /\ issues[i].threshold = 10
       /\ issues[i].metric_value = Val(5)
       /\ issues[i].severity = "HIGH"

\* the thresholds a DiagnosticEngine is meant to hold: the constructor argument
\* where one was passed, the settings default where none was
PassedOrDefault ==
  [ name \in MetricNames |->
      IF config[name \o "_threshold"] # NotGiven THEN config[name \o "_threshold"]
      ELSE DiagnosticEngine_thresholds(UnsetConfig)[name] ]

\* C28: a threshold passed to the DiagnosticEngine constructor is the threshold
\* diagnose compares against, for every value including 0; the settings default
\* is used only for a threshold that was not passed.
C28_ExplicitThresholdUsed ==
  (impl = "legacy" /\ Diagnosed) =>
    \A name \in MetricNames :
      /\ Breaches(metrics, name, PassedOrDefault) <=> IssuesFor(name) # {}
      /\ \A i \in IssuesFor(name) : issues[i].threshold = PassedOrDefault[name]

\* the non-null metric scores of a result
PresentScores(r) ==
  SelectSeq(<<r.context_precision, r.context_relevancy, r.faithfulness, r.answer_relevancy>>,
            LAMBDA x : ~IsNone(x))

\* C30: every result that carries at least one non-null metric score has a
\* non-null overall_score, the mean of its non-null scores with 0.0 included, and
\* is counted in score_distribution; a result whose scores are all 0.0 is counted
\* in the critical bucket.
C30_ScoredHasOverall ==
  /\ \A i \in DOMAIN results :
       LET present == PresentScores(results[i])
           overall == results[i].overall_score
       IN present # <<>> =>
            /\ ~IsNone(overall)
            /\ overall.n * MeanOrNone(present).d = MeanOrNone(present).n * overall.d
  /\ (Aggregated /\ CutPointsOrdered) =>
       /\ BucketTotal(metrics.score_distribution)
            = Cardinality({i \in DOMAIN results : PresentScores(results[i]) # <<>>})
       /\ config.poor_threshold > 0 =>
            metrics.score_distribution.critical
              >= Cardinality({i \in DOMAIN results :
                                /\ PresentScores(results[i]) # <<>>
                                /\ \A k \in DOMAIN PresentScores(results[i]) :
                                     PresentScores(results[i])[k].n = 0})

\* the item is neither an Interaction nor a mapping, or is a mapping without the
\* query or without the response
Malformed(item) ==
  \/ item.kind \notin {"Interaction", "dict"}
  \/ item.kind = "dict" /\ (item.query = NoKey \/ item.response = NoKey)

\* C21: a run that is supplied a malformed interaction record fails at the entry
\* point with an error, before any scoring call is made for the run.
C21_MalformedRejected ==
  (impl = "core" /\ EntryCalled /\ \E i \in DOMAIN supplied : Malformed(supplied[i])) =>
    /\ raised # ""
    /\ ~Called("score")

\* the i-th result is the result of the i-th supplied interaction
BelongsTo(i) ==
  IF impl = "core" THEN results[i].interaction = i
  ELSE results[i].interaction_id = _get_interaction_id(supplied[i], i - 1)

\* C23: the scoring stage of a run returns exactly one result per input
\* interaction, in input order: n interactions give n results and the i-th result
\* belongs to the i-th interaction, also for interactions without retrieved
\* contexts and for interactions that share an identifier.
C23_OneResultPerInteraction ==
  (EntryCalled /\ raised = "") =>
    /\ Len(results) = Len(supplied)
    /\ \A i \in DOMAIN results : BelongsTo(i)

\* the containers of the two static rule tables
RuleTableObjects ==
  {RuleObject("DIAGNOSTIC_RULES", k, "causes") : k \in DOMAIN DIAGNOSTIC_RULES}
  \cup {RuleObject("RECOMMENDATION_RULES", k, "parameter_adjustments") :
          k \in DOMAIN RECOMMENDATION_RULES}

\* C24: no issue and no recommendation returned by a run aliases a static rule
\* table: the probable_causes of every returned issue and the
\* parameter_adjustments of every returned recommendation are containers of
\* their own, so that modifying them leaves the rule tables unchanged.
C24_NoRuleTableAliasing ==
  /\ \A i \in DOMAIN issues : issues[i].probable_causes_id \notin RuleTableObjects
  /\ \A i \in DOMAIN recs : recs[i].parameter_adjustments_id \notin RuleTableObjects

\* C22: if a collaborator call of a run fails (scoring, storing the evaluation and
\* its results, storing the recommendations, or a later export / report step),
\* nothing of that run is left durably persisted.
C22_NoPartialPersistence ==
  (EntryCalled /\ raised # "") =>
    \A k \in DOMAIN sessions : sessions[k].rows = <<>>

\* how often the operation occurs in the trace of a session
Count(trace, op) == Cardinality({k \in DOMAIN trace : trace[k] = op})

====
